---- MODULE Spec2Model ----
(***************************************************************************)
(* Model of assignment1.py: the batch pipeline main() that loads every     *)
(* recording, resamples it, and renders waveform / spectrum / LPC images   *)
(* through matplotlib's implicit current-figure state.                     *)
(*                                                                         *)
(* Strings the code splits or formats are sequences of tokens: a basename  *)
(* "1_voiced_w.wav" is <<"1","_","voiced","_","w",".wav">>, and an f-string*)
(* is the concatenation of its pieces.  A signal is a record of its sample *)
(* rate, its samples (each sample is named by its 0-based position) and    *)
(* the index of the file it was decoded from.                              *)
(***************************************************************************)
EXTENDS Integers, Sequences, FiniteSets, TLC

\* ---------------------------------------------------------------- bounds
MaxFiles == 2
MaxLen == 2
MaxOrders == 2
MaxSignal == 8
MaxFrameRate == 7

\* ------------------------------------------------------------- constants
FramesPerSecond == 40

\* ------------------------------------------------------------ input sets
Basenames ==
    { <<"1", ".wav">>,
      <<"1", "_", "voiced", "_", "w", ".wav">>,
      <<"2", "_", "voiceless", "_", "t", ".wav">>,
      <<"3", "_", "voiced", ".wav">> }

\* --orig_sr and --target_sr; a rate under 40 Hz gives a frame of no samples.
OrigRates == {80}

Rates == {20, 40, 120}

Orders == {1, 2}

RECURSIVE SeqsUpTo(_, _)
SeqsUpTo(S, n) ==
    IF n = 0 THEN {<<>>}
    ELSE LET shorter == SeqsUpTo(S, n - 1)
         IN  shorter \cup {Append(s, x) : s \in {t \in shorter : Len(t) = n - 1}, x \in S}

Distinct(s) == \A i, j \in 1..Len(s) : i # j => s[i] # s[j]

\* Directory listings: no two entries of a directory share a name.
Listings == {s \in SeqsUpTo(Basenames, MaxFiles) : Distinct(s)}

\* argparse nargs='+' : at least one order, repetitions allowed.
OrderLists == {s \in SeqsUpTo(Orders, MaxOrders) : Len(s) >= 1}

F0Outcomes == {"nan", "zero", "positive"}

\* --------------------------------------------------------- string helpers
RECURSIVE split(_, _)
split(s, sep) ==
    IF \A i \in 1..Len(s) : s[i] # sep THEN <<s>>
    ELSE LET k == CHOOSE i \in 1..Len(s) :
                      s[i] = sep /\ \A j \in 1..(i - 1) : s[j] # sep
         IN  <<SubSeq(s, 1, k - 1)>> \o split(SubSeq(s, k + 1, Len(s)), sep)

replace(s, old) == SelectSeq(s, LAMBDA t : t # old)

DigitChars == <<"0", "1", "2", "3", "4", "5", "6", "7", "8", "9">>

RECURSIVE str(_)
str(n) == IF n < 10 THEN <<DigitChars[n + 1]>>
          ELSE str(n \div 10) \o <<DigitChars[(n % 10) + 1]>>

Min(a, b) == IF a < b THEN a ELSE b
Max(a, b) == IF a > b THEN a ELSE b

\* Python's s[lo:hi] for a sequence s (0-based, negative bounds count from
\* the end, out-of-range bounds are clamped, never an error).
PySlice(s, lo, hi) ==
    LET n     == Len(s)
        start == IF lo < 0 THEN Max(lo + n, 0) ELSE Min(lo, n)
        stop  == IF hi < 0 THEN Max(hi + n, 0) ELSE Min(hi, n)
    IN  IF stop <= start THEN <<>> ELSE SubSeq(s, start + 1, stop)

\* ----------------------------------------------------------------- audio
Samples(n) == [i \in 1..n |-> i - 1]

\* librosa.load(filepath, sr=orig_sr): n samples at rate orig_sr.
load(file, n, orig_sr) == [sr |-> orig_sr, samples |-> Samples(n), src |-> file]

\* librosa.resample: ceil(len * target_sr / orig_sr) samples at target_sr.
resample(y, orig_sr, target_sr) ==
    [sr      |-> target_sr,
     samples |-> Samples((Len(y.samples) * target_sr + orig_sr - 1) \div orig_sr),
     src     |-> y.src]

\* ------------------------------------------------- matplotlib.pyplot state
\* figs is the stack of open figures, the last one being the current figure;
\* a figure is the set of things drawn on it.
PltPlot(figs, item) ==
    IF figs = <<>> THEN <<{item}>>
    ELSE [figs EXCEPT ![Len(figs)] = @ \cup {item}]

PltClose(figs) == IF figs = <<>> THEN <<>> ELSE SubSeq(figs, 1, Len(figs) - 1)

\* savefig writes the current figure, creating an empty one when none is open.
PltGcf(figs) == IF figs = <<>> THEN <<{}>> ELSE figs

\* Bind(v, F) is F(v) with v evaluated once: the value of one statement
\* handed to the statements after it.
Bind(v, F(_)) == CHOOSE r \in {F(x) : x \in {v}} : TRUE

PltSavefig(st, path, plot) ==
    Bind(PltGcf(st.figs), LAMBDA g :
        [figs  |-> g,
         saved |-> Append(st.saved, [path |-> path, content |-> g[Len(g)],
                                     plot |-> plot])])

\* The logical plot an image or a drawn line belongs to.
Plot(kind, src, order, title) ==
    [kind |-> kind, src |-> src, order |-> order, title |-> title]

\* A drawn line: what it shows, the LPC order it belongs to (0 when none),
\* the logical plot whose call drew it, the rate its x axis was computed
\* with and the rate of the samples drawn.
Item(what, order, plot, x_sr, y_sr) ==
    [what |-> what, order |-> order, plot |-> plot, x_sr |-> x_sr, y_sr |-> y_sr]

\* ------------------------------------------------------------ plot_waveform
plot_waveform(st, digit, audio, target_sr) ==
    LET plot == Plot("waveform", audio.src, 0, "")
        path == <<"./output/waveforms/waveform">> \o digit \o <<".png">>
    IN  Bind(st, LAMBDA s0 :
        Bind(PltPlot(s0.figs, Item("waveform", 0, plot, target_sr, audio.sr)),
             LAMBDA drawn :
        Bind(PltSavefig([figs |-> drawn, saved |-> s0.saved], path, plot),
             LAMBDA out :
        [figs |-> PltClose(out.figs), saved |-> out.saved])))

\* ---------------------------------------------- calculate_pitchperiod_and_f0
\* np.average of the estimator's series, as printed.
Printed(f0) == CASE f0 = "nan"  -> "nan"
                 [] f0 = "zero" -> "0.0"
                 [] OTHER       -> "finite"

\* 1/f0 on a numpy float: nan stays nan, zero gives inf (a warning, no fault).
Reciprocal(f0) == CASE f0 = "nan"  -> "nan"
                    [] f0 = "zero" -> "inf"
                    [] OTHER       -> "finite"

calculate_pitchperiod_and_f0(out, f0, digit, voicing, letter) ==
    Append(out, [digit |-> digit, voicing |-> voicing, letter |-> letter,
                 average |-> f0,
                 f0 |-> Printed(f0), period |-> Reciprocal(f0),
                 no_pitch |-> FALSE])

\* ---------------------------------------------------------- autocorrelation
AutocorrelationPath(order, title) ==
    <<"./output/autocorrelation/autocorrelation_">> \o str(order)
        \o <<"_", title, ".png">>

\* autocorrelation without the plt.close() that follows plt.acorr.
autocorrelation_keeps_figure(st, inp, lags, order, title) ==
    LET plot == Plot("autocorrelation", inp.src, order, title)
    IN  Bind(st, LAMBDA s0 :
        Bind(PltPlot(s0.figs, Item("acorr", order, plot, inp.sr, inp.sr)),
             LAMBDA acorr :
        Bind(PltPlot(acorr, Item("autocorrelation", order, plot, inp.sr, inp.sr)),
             LAMBDA drawn :
        Bind(PltSavefig([figs |-> drawn, saved |-> s0.saved],
                        AutocorrelationPath(order, title), plot),
             LAMBDA out :
        [figs |-> PltClose(out.figs), saved |-> out.saved]))))

autocorrelation(st, inp, lags, order, title) ==
    LET plot == Plot("autocorrelation", inp.src, order, title)
    IN  Bind(st, LAMBDA s0 :
        Bind(PltPlot(s0.figs, Item("acorr", order, plot, inp.sr, inp.sr)),
             LAMBDA acorr :
        Bind(PltClose(acorr),
             LAMBDA closed :
        Bind(PltPlot(closed, Item("autocorrelation", order, plot, inp.sr, inp.sr)),
             LAMBDA drawn :
        Bind(PltSavefig([figs |-> drawn, saved |-> s0.saved],
                        AutocorrelationPath(order, title), plot),
             LAMBDA out :
        [figs |-> PltClose(out.figs), saved |-> out.saved])))))

\* ------------------------------------------------------------ plot_spectrum
\* The frame taken from the start of the signal instead of its middle.
y_frame_s_from_start(audio, target_sr) ==
    [sr      |-> audio.sr,
     samples |-> PySlice(audio.samples, 0, target_sr \div FramesPerSecond),
     src     |-> audio.src]

\* Lines 86-90: the frame taken from the middle of the signal.
y_frame_s(audio, target_sr) ==
    LET sound_middle    == Len(audio.samples) \div 2
        frame_samples_n == target_sr \div FramesPerSecond
    IN  [sr      |-> audio.sr,
         samples |-> PySlice(audio.samples, sound_middle, sound_middle + frame_samples_n),
         src     |-> audio.src]

\* Line 92: numpy's FFT rejects an empty input.
FftRaises(frame) == Len(frame.samples) = 0

\* Lines 92-98: the raw magnitude spectrum drawn on the current figure.
plot_magnitude(st, frame, target_sr, plot) ==
    Bind(st, LAMBDA s0 :
        [figs  |-> PltPlot(s0.figs, Item("spectrum", 0, plot, target_sr, frame.sr)),
         saved |-> s0.saved])

\* Lines 101-115: one pass of the loop over the requested orders.
lpc_envelope_order(st, frame, target_sr, order, plot) ==
    LET n == Len(frame.samples)
    IN  Bind(autocorrelation(st, frame, n, order, "error"), LAMBDA ac1 :
        Bind(autocorrelation(ac1, frame, n, order, "frame"), LAMBDA ac2 :
        Bind(PltPlot(ac2.figs, Item("spectrum", 0, plot, target_sr, frame.sr)),
             LAMBDA sp :
        [figs  |-> PltPlot(sp, Item("envelope", order, plot, target_sr, frame.sr)),
         saved |-> ac2.saved])))

SpectrumPath(dir, digit, voicing, letter) ==
    <<dir>> \o <<"spectrum_">> \o digit \o <<"_">> \o voicing \o <<"_">> \o letter
            \o <<".png">>

\* Lines 117-118 / 122-123, then 124.
save_spectrum(st, lpc_envelope, digit, voicing, letter, plot) ==
    LET dir == IF lpc_envelope THEN "./output/spectra_with_lpc/" ELSE "./output/spectra/"
    IN  Bind(st, LAMBDA s0 :
        Bind(PltSavefig(s0, SpectrumPath(dir, digit, voicing, letter), plot),
             LAMBDA out :
        [figs |-> PltClose(out.figs), saved |-> out.saved]))

\* librosa.lpc is well-defined only for frames longer than the order.
LpcWellDefined(frame, order) == Len(frame.samples) >= order + 1

\* --------------------------------------------------------------------- main
\* Path("recordings").glob: a missing directory yields no file.
glob(dir) == IF dir.exists THEN dir.entries ELSE <<>>

IsSegment(basename) == Len(split(basename, "_")) = 3

Fields(basename) == split(replace(basename, ".wav"), "_")

\* Pitch estimated for every segment, whatever its voicing.
ShouldEstimatePitch_any(voicing) == TRUE

ShouldEstimatePitch(voicing) == voicing = <<"voiced">>

\* A loop that skips every other file.
NextIndex_skipping(i) == i + 2

NextIndex(i) == i + 1

\* A decode failure that is swallowed instead of propagating.
DecodeRaises_swallowed(decodable) == FALSE

\* librosa.load raises on a file it cannot decode; main does not catch it.
DecodeRaises(decodable) == ~decodable

VARIABLES orig_sr, target_sr, model_orders, recordings,
          files, idx, pc, error, y, downsampled_y, frame, oi,
          figs, saved, console, calls, steps

vars == <<orig_sr, target_sr, model_orders, recordings,
          files, idx, pc, error, y, downsampled_y, frame, oi,
          figs, saved, console, calls, steps>>

args == <<orig_sr, target_sr, model_orders, recordings>>

NoAudio == [sr |-> 0, samples |-> <<>>, src |-> 0]

Init ==
    /\ orig_sr \in OrigRates
    /\ target_sr \in Rates
    /\ model_orders \in OrderLists
    /\ recordings \in {[exists |-> TRUE, entries |-> l] : l \in Listings}
                      \cup {[exists |-> FALSE, entries |-> <<>>]}
    /\ files = <<>>
    /\ idx = 0
    /\ pc = "start"
    /\ error = "none"
    /\ y = NoAudio
    /\ downsampled_y = NoAudio
    /\ frame = NoAudio
    /\ oi = 0
    /\ figs = <<>>
    /\ saved = <<>>
    /\ console = <<>>
    /\ calls = <<>>
    /\ steps = 0

\* The record of a call: the function, the file it is made for and, for
\* librosa.lpc, the length of the frame and the order it is given.
Call(fn, file, len, order) ==
    [fn |-> fn, file |-> file, len |-> len, order |-> order]

Abort(reason) ==
    /\ pc' = "aborted"
    /\ error' = reason

\* Control after the body of the for loop: the next file, or the end.
Advance ==
    /\ idx' = NextIndex(idx)
    /\ pc' = IF NextIndex(idx) > Len(files) THEN "done" ELSE "load"
    /\ error' = error

\* Line 130: the directory is listed.
Discover ==
    /\ pc = "start"
    /\ files' = glob(recordings)
    /\ idx' = 1
    /\ pc' = IF glob(recordings) = <<>> THEN "done" ELSE "load"
    /\ steps' = steps + 1
    /\ UNCHANGED <<args, error, y, downsampled_y, frame, oi, figs, saved, console, calls>>

\* Lines 131-139, 149: decode, resample, branch on the shape of the name.
LoadFile ==
    /\ pc = "load"
    /\ steps' = steps + 1
    /\ \E decodable \in BOOLEAN, n \in 1..MaxLen :
          /\ calls' = Append(calls, Call(IF decodable THEN "load" ELSE "load_failed",
                                         idx, 0, 0))
          /\ IF DecodeRaises(decodable)
             THEN /\ Abort("decode")
                  /\ UNCHANGED <<y, downsampled_y>>
             ELSE /\ y' = load(idx, n, orig_sr)
                  /\ downsampled_y' = resample(load(idx, n, orig_sr), orig_sr, target_sr)
                  /\ error' = error
                  /\ pc' = IF IsSegment(files[idx])
                            THEN IF ShouldEstimatePitch(Fields(files[idx])[2])
                                 THEN "pitch" ELSE "spectrum"
                            ELSE "waveform"
    /\ frame' = NoAudio
    /\ UNCHANGED <<args, files, idx, oi, figs, saved, console>>

\* Lines 141-142.
EstimatePitch ==
    /\ pc = "pitch"
    /\ steps' = steps + 1
    /\ \E f0 \in F0Outcomes :
          console' = calculate_pitchperiod_and_f0(console, f0, Fields(files[idx])[1],
                                                  Fields(files[idx])[2],
                                                  Fields(files[idx])[3])
    /\ calls' = Append(calls, Call("calculate_pitchperiod_and_f0", idx, 0, 0))
    /\ pc' = "spectrum"
    /\ UNCHANGED <<args, files, idx, error, y, downsampled_y, frame, oi, figs, saved>>

\* Line 144: plot_spectrum without the LPC envelope.
PlotSpectrum ==
    /\ pc = "spectrum"
    /\ steps' = steps + 1
    /\ calls' = Append(calls, Call("plot_spectrum", idx, 0, 0))
    /\ \E fr \in {y_frame_s(downsampled_y, target_sr)} :
          /\ frame' = fr
          /\ IF FftRaises(fr)
             THEN /\ Abort("fft")
                  /\ UNCHANGED <<figs, saved>>
             ELSE \E out \in {save_spectrum(
                                 plot_magnitude([figs |-> figs, saved |-> saved], fr,
                                                target_sr,
                                                Plot("spectrum", downsampled_y.src, 0, "")),
                                 FALSE, Fields(files[idx])[1], Fields(files[idx])[2],
                                 Fields(files[idx])[3],
                                 Plot("spectrum", downsampled_y.src, 0, ""))} :
                      /\ figs' = out.figs
                      /\ saved' = out.saved
                      /\ pc' = "lpc_begin"
                      /\ error' = error
    /\ UNCHANGED <<args, files, idx, y, downsampled_y, oi, console>>

\* Line 146, lines 86-99: plot_spectrum with the LPC envelope is entered.
PlotSpectrumLpc ==
    /\ pc = "lpc_begin"
    /\ steps' = steps + 1
    /\ calls' = Append(calls, Call("plot_spectrum_lpc", idx, 0, 0))
    /\ \E fr \in {y_frame_s(downsampled_y, target_sr)} :
          /\ frame' = fr
          /\ IF FftRaises(fr)
             THEN /\ Abort("fft")
                  /\ UNCHANGED <<figs, oi>>
             ELSE /\ figs' = plot_magnitude([figs |-> figs, saved |-> saved], fr,
                                            target_sr,
                                            Plot("spectrum_lpc", downsampled_y.src, 0, "")).figs
                  /\ oi' = 1
                  /\ pc' = "lpc_loop"
                  /\ error' = error
    /\ UNCHANGED <<args, files, idx, y, downsampled_y, saved, console>>

\* Lines 100-115: the body of the loop for the next requested order.  A frame
\* too short for the order is outside librosa.lpc's contract: it may raise or
\* return coefficients.
LpcOrder ==
    /\ pc = "lpc_loop"
    /\ oi <= Len(model_orders)
    /\ steps' = steps + 1
    /\ calls' = Append(calls, Call("lpc", idx, Len(frame.samples), model_orders[oi]))
    /\ \E raises \in {FALSE} \cup {~LpcWellDefined(frame, model_orders[oi])} :
          IF raises
          THEN /\ Abort("lpc")
               /\ UNCHANGED <<figs, saved, oi>>
          ELSE \E out \in {lpc_envelope_order(
                              [figs |-> figs, saved |-> saved], frame, target_sr,
                              model_orders[oi],
                              Plot("spectrum_lpc", frame.src, 0, ""))} :
                   /\ figs' = out.figs
                   /\ saved' = out.saved
                   /\ oi' = oi + 1
                   /\ UNCHANGED <<pc, error>>
    /\ UNCHANGED <<args, files, idx, y, downsampled_y, frame, console>>

\* Lines 117-118, 124: the image with the envelopes is saved; next file.
SaveSpectrumLpc ==
    /\ pc = "lpc_loop"
    /\ oi > Len(model_orders)
    /\ steps' = steps + 1
    /\ \E out \in {save_spectrum([figs |-> figs, saved |-> saved], TRUE,
                                 Fields(files[idx])[1], Fields(files[idx])[2],
                                 Fields(files[idx])[3],
                                 Plot("spectrum_lpc", frame.src, 0, ""))} :
          /\ figs' = out.figs
          /\ saved' = out.saved
    /\ Advance
    /\ UNCHANGED <<args, files, y, downsampled_y, frame, oi, console, calls>>

\* Lines 150-151: the waveform of a complete recording; next file.
PlotWaveform ==
    /\ pc = "waveform"
    /\ steps' = steps + 1
    /\ \E out \in {plot_waveform([figs |-> figs, saved |-> saved],
                                 replace(files[idx], ".wav"), y, target_sr)} :
          /\ figs' = out.figs
          /\ saved' = out.saved
    /\ calls' = Append(calls, Call("plot_waveform", idx, 0, 0))
    /\ Advance
    /\ UNCHANGED <<args, files, y, downsampled_y, frame, oi, console>>

Next ==
    \/ Discover
    \/ LoadFile
    \/ EstimatePitch
    \/ PlotSpectrum
    \/ PlotSpectrumLpc
    \/ LpcOrder
    \/ SaveSpectrumLpc
    \/ PlotWaveform

Spec == Init /\ [][Next]_vars

\* The script is one thread that runs until it ends or an exception escapes.
FairSpec == Spec /\ WF_vars(Next)

\* ------------------------------------------- frame extraction on its own
\* Lines 86-90 applied to any signal of up to MaxSignal samples at any rate
\* that is a multiple of 20 Hz up to 20 * MaxFrameRate.
FrameInit ==
    /\ target_sr \in {20 * k : k \in 0..MaxFrameRate}
    /\ \E N \in 0..MaxSignal :
          downsampled_y = [sr |-> target_sr, samples |-> Samples(N), src |-> 1]
    /\ orig_sr = target_sr
    /\ model_orders = <<1>>
    /\ recordings = [exists |-> TRUE, entries |-> <<>>]
    /\ files = <<>>
    /\ idx = 1
    /\ pc = "frame"
    /\ error = "none"
    /\ y = NoAudio
    /\ frame = NoAudio
    /\ oi = 0
    /\ figs = <<>>
    /\ saved = <<>>
    /\ console = <<>>
    /\ calls = <<>>
    /\ steps = 0

ExtractFrame ==
    /\ pc = "frame"
    /\ frame' = y_frame_s(downsampled_y, target_sr)
    /\ pc' = "framed"
    /\ UNCHANGED <<args, files, idx, error, y, downsampled_y, oi,
                   figs, saved, console, calls, steps>>

FrameNext == ExtractFrame

FrameSpec == FrameInit /\ [][FrameNext]_vars

Terminated == pc \in {"done", "aborted"}

\* ------------------------------------------------------- auxiliary notions
\* The two shapes of a filename, read off the name itself:
\* <digit>_<voicing>_<letter>.wav has exactly two underscores, <digit>.wav none.
Underscores(b) == Cardinality({i \in 1..Len(b) : b[i] = "_"})
SegmentShape(b) == Underscores(b) = 2
WholeDigitShape(b) == Underscores(b) = 0
Malformed(b) == ~SegmentShape(b) /\ ~WholeDigitShape(b)
VoicedSegment(b) == SegmentShape(b) /\ b[3] = "voiced"

ImagesOf(kind, i) ==
    {k \in 1..Len(saved) : saved[k].plot.kind = kind /\ saved[k].plot.src = i}

CallsOf(fn, i) == {k \in 1..Len(calls) : calls[k].fn = fn /\ calls[k].file = i}

\* File i has been processed to the end of the loop body.
Completed(i) == i \in 1..Len(files) /\ i < idx

LpcImages == {k \in 1..Len(saved) : saved[k].plot.kind = "spectrum_lpc"}

\* ------------------------------------------------------------------- claims

\* C1: the image saved to output/spectra_with_lpc/ contains the raw magnitude
\* spectrum and one LPC envelope curve for each requested order.
C1_AllOrdersOverlaid ==
    \A k \in LpcImages :
        /\ \E it \in saved[k].content : it.what = "spectrum"
        /\ \A j \in 1..Len(model_orders) :
              \E it \in saved[k].content :
                  it.what = "envelope" /\ it.order = model_orders[j]

\* C2: a segment file gets one plain spectrum image, one spectrum-with-LPC
\* image and no waveform image; any other file gets one waveform image and no
\* spectrum image; pitch estimation is invoked for a file if and only if it is
\* a segment file whose voicing is "voiced".
C2_OnePathPerFile ==
    \A i \in 1..Len(files) :
        /\ SegmentShape(files[i]) => ImagesOf("waveform", i) = {}
        /\ ~SegmentShape(files[i]) =>
              /\ ImagesOf("spectrum", i) = {}
              /\ ImagesOf("spectrum_lpc", i) = {}
              /\ ImagesOf("autocorrelation", i) = {}
        /\ CallsOf("calculate_pitchperiod_and_f0", i) # {} => VoicedSegment(files[i])
        /\ Completed(i) =>
              /\ Cardinality(CallsOf("calculate_pitchperiod_and_f0", i))
                    = IF VoicedSegment(files[i]) THEN 1 ELSE 0
              /\ Cardinality(ImagesOf("spectrum", i))
                    = IF SegmentShape(files[i]) THEN 1 ELSE 0
              /\ Cardinality(ImagesOf("spectrum_lpc", i))
                    = IF SegmentShape(files[i]) THEN 1 ELSE 0
              /\ Cardinality(ImagesOf("waveform", i))
                    = IF SegmentShape(files[i]) THEN 0 ELSE 1

C2_Witness ==
    /\ pc = "done"
    /\ \E i, j \in 1..Len(files) :
          /\ VoicedSegment(files[i])
          /\ CallsOf("calculate_pitchperiod_and_f0", i) # {}
          /\ ImagesOf("spectrum_lpc", i) # {}
          /\ WholeDigitShape(files[j])
          /\ ImagesOf("waveform", j) # {}

\* C3: the signal drawn by plot_waveform is the signal resampled to target_sr,
\* the rate its time axis is computed with.
C3_WaveformResampled ==
    \A k \in 1..Len(saved) :
        saved[k].plot.kind = "waveform" =>
            \A it \in saved[k].content :
                it.y_sr = target_sr /\ it.x_sr = it.y_sr

\* C4: every frame passed to LPC coefficient estimation has length >= order+1.
C4_FrameLongEnough ==
    \A k \in 1..Len(calls) :
        calls[k].fn = "lpc" => calls[k].len >= calls[k].order + 1

\* C5: for a signal of length N at rate sr the frame is signal[N/2 .. N/2+sr/40-1]
\* when N >= N/2 + sr/40 and signal[N/2 .. N-1] otherwise, of length
\* min(sr/40, N - N/2); no signal, however short, makes the extraction fail.
C5_FrameIsMiddleWindow ==
    pc = "framed" =>
        LET N   == Len(downsampled_y.samples)
            w   == target_sr \div 40
            mid == N \div 2
        IN  /\ Len(frame.samples) = Min(w, N - mid)
            /\ N >= mid + w =>
                 frame.samples = [i \in 1..w |-> downsampled_y.samples[mid + i]]
            /\ N < mid + w =>
                 frame.samples = [i \in 1..(N - mid) |-> downsampled_y.samples[mid + i]]

C5_Witness ==
    /\ pc = "framed"
    /\ Len(frame.samples) > 0
    /\ Len(frame.samples) < target_sr \div 40
    /\ Len(downsampled_y.samples) \div 2 > 0

\* A file that main reached and that is an input error: its name has neither
\* shape, or it could not be decoded.
InputErrorAt(i) ==
    /\ i \in 1..Len(files)
    /\ \/ CallsOf("load_failed", i) # {}
       \/ Malformed(files[i]) /\ CallsOf("load", i) # {}

NoOutputFrom(i) ==
    /\ \A k \in 1..Len(saved) : saved[k].plot.src < i
    /\ \A k \in 1..Len(calls) :
          calls[k].file >= i => calls[k].fn \in {"load", "load_failed"}

\* C6 as stated: on a missing directory, a malformed filename or an
\* undecodable file the run ends abnormally and writes no output for that file
\* or any later one.
C6_FailFastOnInputError ==
    /\ (~recordings.exists /\ Terminated) => pc = "aborted"
    /\ \A i \in 1..Len(files) :
          InputErrorAt(i) => /\ NoOutputFrom(i)
                             /\ Terminated => pc = "aborted"

\* C6 amended: an undecodable file ends the run abnormally with no output for
\* that file or any later one; a missing directory ends the run normally with
\* no output at all; a name of neither shape is processed as a whole-digit
\* file and gets its waveform image.
C6_DecodeFailureAborts ==
    /\ \A i \in 1..Len(files) :
          CallsOf("load_failed", i) # {} =>
              /\ pc = "aborted" /\ error = "decode" /\ idx = i
              /\ NoOutputFrom(i)
    /\ (~recordings.exists /\ pc # "start") =>
          pc = "done" /\ saved = <<>> /\ console = <<>>
    /\ \A i \in 1..Len(files) :
          (Malformed(files[i]) /\ Completed(i)) =>
              Cardinality(ImagesOf("waveform", i)) = 1

C6_Witness ==
    /\ pc = "aborted"
    /\ error = "decode"
    /\ idx = 2
    /\ CallsOf("load_failed", 2) # {}
    /\ saved # <<>>

\* C7: when the average of the pitch series is NaN or zero the function
\* reports "no pitch detected" and prints neither NaN nor Inf.
C7_NoPitchExplicit ==
    \A k \in 1..Len(console) :
        console[k].average \in {"nan", "zero"} =>
            /\ console[k].no_pitch
            /\ console[k].f0 \notin {"nan", "inf"}
            /\ console[k].period \notin {"nan", "inf"}

\* C8: every saved image contains only what was drawn for its own logical
\* plot, the current figure is closed after each image is written, and no
\* figure is open when the next file begins.
C8_FiguresCleared ==
    /\ \A k \in 1..Len(saved) :
          \A it \in saved[k].content : it.plot = saved[k].plot
    /\ pc \notin {"lpc_loop", "aborted"} => figs = <<>>
    /\ pc = "lpc_loop" =>
          /\ Len(figs) <= 1
          /\ \A g \in 1..Len(figs) : \A it \in figs[g] :
                it.plot = Plot("spectrum_lpc", idx, 0, "")

C8_Witness ==
    /\ pc = "load"
    /\ idx = 2
    /\ figs = <<>>
    /\ ImagesOf("autocorrelation", 1) # {}
    /\ ImagesOf("spectrum_lpc", 1) # {}
    /\ Len(model_orders) = 2

LoadsOf(i) == CallsOf("load", i) \cup CallsOf("load_failed", i)

C9_Safety ==
    /\ steps <= 1 + Len(recordings.entries) * (5 + Len(model_orders))
    /\ \A i \in 1..Len(files) : Cardinality(LoadsOf(i)) <= 1
    /\ \A a, b \in 1..Len(calls) : a < b => calls[a].file <= calls[b].file
    /\ \A a, b \in 1..Len(saved) : a < b => saved[a].plot.src <= saved[b].plot.src
    /\ pc = "load" => \A k \in 1..Len(saved) : saved[k].plot.src < idx
    /\ pc = "done" =>
          /\ recordings.exists => Len(files) = Len(recordings.entries)
          /\ \A i \in 1..Len(files) : Cardinality(CallsOf("load", i)) = 1

\* C9: main processes each discovered file exactly once, one at a time (all
\* outputs of a file are written before the next is loaded), and the run
\* ends after a number of steps bounded by the files and the orders.
C9_EachFileOnceAndTerminates == []C9_Safety /\ <>Terminated
C9_Live == <>Terminated

C9_Witness ==
    /\ pc = "done"
    /\ Len(files) = MaxFiles
    /\ Len(model_orders) = MaxOrders
    /\ \E i \in 1..Len(files) : SegmentShape(files[i])

\* C10: within a run no two different logical plots (different file, order
\* or signal plotted) are saved to the same path, so no image written earlier
\* in the run is overwritten by another one later.
C10_PathsWrittenOnce ==
    \A a, b \in 1..Len(saved) :
        saved[a].plot # saved[b].plot => saved[a].path # saved[b].path

====
